---- MODULE Spec2Model ----
(***************************************************************************)
(* Personal finance tracker (src/app.py): the CSV ledger store             *)
(* (load_data, save_data, add_transaction, delete_transaction) and the     *)
(* dashboard computations (date-range mask, totals, previous period,       *)
(* tag analysis).                                                          *)
(*                                                                         *)
(* Text is a sequence of one-character strings, so that str.split,         *)
(* str.strip and the CSV reader's type inference are computed, not         *)
(* assumed.  Dates are day numbers; amounts are whole currency units       *)
(* (the code uses floats; no property below depends on rounding).          *)
(***************************************************************************)
EXTENDS Integers, Sequences, FiniteSets, TLC

VARIABLES fs, today, call, ret, view

vars == <<fs, today, call, ret, view>>

----------------------------------------------------------------------------
(* Bounds of the model *)

MaxRows == 2
MaxDay == 2
MaxAmount == 3

----------------------------------------------------------------------------
(* Program constants *)

DATA_FILE == "finance_data.csv"

INCOME_CATEGORIES ==
  <<"Salary", "Freelance", "Investment Returns", "Rental Income",
    "Business", "Gifts", "Refunds", "Other Income">>

EXPENSE_CATEGORIES ==
  <<"Housing", "Transportation", "Food & Dining", "Groceries",
    "Utilities", "Healthcare", "Entertainment", "Shopping",
    "Education", "Travel", "Insurance", "Subscriptions",
    "Debt Payments", "Savings", "Other Expenses">>

\* columns of the canonical empty frame, and of every frame built from it
COLUMNS == <<"Date", "Type", "Category", "Amount", "Description", "Tags">>

\* st.number_input(min_value=0.01): the smallest amount the form accepts,
\* one unit of the model's amounts
MinAmount == 1

----------------------------------------------------------------------------
(* Text helpers *)

DIGITS == <<"0", "1", "2", "3", "4", "5", "6", "7", "8", "9">>

IsDigit(c) == \E i \in 1..10 : DIGITS[i] = c

DigitVal(c) == (CHOOSE i \in 1..10 : DIGITS[i] = c) - 1

Abs(n) == IF n < 0 THEN -n ELSE n

RECURSIVE SumSeq(_)
SumSeq(s) == IF s = <<>> THEN 0 ELSE Head(s) + SumSeq(Tail(s))

RECURSIVE Flatten(_)
Flatten(ss) == IF ss = <<>> THEN <<>> ELSE Head(ss) \o Flatten(Tail(ss))

\* the text read_csv's C parser takes for an integer (sign and padding are
\* outside the model's alphabet)
IsIntText(s) == Len(s) > 0 /\ \A i \in 1..Len(s) : IsDigit(s[i])

\* the text to_csv writes for a whole float ("7.0"), read back as a float
IsFloatText(s) ==
  /\ Len(s) >= 3
  /\ s[Len(s) - 1] = "."
  /\ s[Len(s)] = "0"
  /\ IsIntText(SubSeq(s, 1, Len(s) - 2))

RECURSIVE IntVal(_)
IntVal(s) ==
  IF s = <<>> THEN 0
  ELSE IntVal(SubSeq(s, 1, Len(s) - 1)) * 10 + DigitVal(s[Len(s)])

RECURSIVE IntText(_)
IntText(n) ==
  IF n < 10 THEN <<DIGITS[n + 1]>>
  ELSE IntText(n \div 10) \o <<DIGITS[(n % 10) + 1]>>

\* strings read_csv turns into NaN with the default na_values
\* (keep_default_na is not switched off at the call)
na_values ==
  { <<>>,
    <<"N", "A">>,
    <<"N", "/", "A">>,
    <<"n", "/", "a">>,
    <<"N", "a", "N">>,
    <<"n", "a", "n">>,
    <<"N", "U", "L", "L">>,
    <<"n", "u", "l", "l">>,
    <<"#", "N", "A">>,
    <<"#", "N", "/", "A">>,
    <<"<", "N", "A", ">">>,
    <<"-", "N", "a", "N">>,
    <<"-", "n", "a", "n">> }

----------------------------------------------------------------------------
(* Cells of a DataFrame column of free text (Description, Tags) *)

NaN == <<"nan">>
StrCell(s) == <<"str", s>>
IntCell(n) == <<"int", n>>
FloatCell(n) == <<"float", n>>

notna(c) == c # NaN

IsNumCell(c) == c[1] \in {"int", "float"}

\* what to_csv writes for a cell: na_rep='' for NaN, repr for numbers
CellText(c) ==
  CASE c[1] = "nan" -> <<>>
    [] c[1] = "str" -> c[2]
    [] c[1] = "int" -> IntText(c[2])
    [] c[1] = "float" -> IntText(c[2]) \o <<".", "0">>

NumVal(s) == IF IsIntText(s) THEN IntVal(s) ELSE IntVal(SubSeq(s, 1, Len(s) - 2))

\* read_csv's per-column inference over all the rows of the file: int64 when
\* every field is an integer, float64 when every field is a number or NA,
\* object (strings, NaN for NA) otherwise
ColumnDtype(texts) ==
  LET idx == 1..Len(texts)
      na == {i \in idx : texts[i] \in na_values}
  IN  IF \A i \in idx \ na : IsIntText(texts[i])
      THEN (IF na = {} THEN "int64" ELSE "float64")
      ELSE IF \A i \in idx \ na : IsIntText(texts[i]) \/ IsFloatText(texts[i])
      THEN "float64"
      ELSE "object"

ParseCell(text, dtype) ==
  IF text \in na_values THEN NaN
  ELSE IF dtype = "int64" THEN IntCell(IntVal(text))
  ELSE IF dtype = "float64" THEN FloatCell(NumVal(text))
  ELSE StrCell(text)

----------------------------------------------------------------------------
(* Date and Amount fields of the file *)

\* to_csv writes a midnight Timestamp as its ISO date
DateText(d) == <<"iso", d>>

\* parse_dates=['Date']
ParseDate(t) == t[2]

\* to_csv writes the number's repr
AmountText(n) == <<"num", n>>

\* pd.to_numeric(errors='coerce'): a number, or NaN for anything else
to_numeric(t) == IF t[1] = "num" THEN <<"num", t[2]>> ELSE NaN

----------------------------------------------------------------------------
(* The file system: file name -> content *)

NoFiles == [n \in {} |-> 0]

WriteFile(files, name, content) ==
  [n \in DOMAIN files \cup {name} |-> IF n = name THEN content ELSE files[n]]

\* df.to_csv(index=False): the header line, then one line of text per row
to_csv(df) ==
  [mode |-> "rw",
   header |-> COLUMNS,
   rows |-> [i \in 1..Len(df) |->
              [Date |-> DateText(df[i].Date),
               Type |-> df[i].Type,
               Category |-> df[i].Category,
               Amount |-> AmountText(df[i].Amount),
               Description |-> CellText(df[i].Description),
               Tags |-> CellText(df[i].Tags)]]]

HasColumn(content, c) == \E i \in 1..Len(content.header) : content.header[i] = c

RECURSIVE dropna(_)
dropna(rows) ==
  IF rows = <<>> THEN <<>>
  ELSE (IF notna(Head(rows).Amount) THEN <<[Head(rows) EXCEPT !.Amount = @[2]]>> ELSE <<>>)
       \o dropna(Tail(rows))

\* pd.read_csv(DATA_FILE, parse_dates=['Date']) on a readable file with the
\* expected columns, then Amount -> to_numeric and dropna(subset=['Amount'])
read_rows(content) ==
  LET rows == content.rows
      idx == 1..Len(rows)
      ddesc == ColumnDtype([i \in idx |-> rows[i].Description])
      dtags == ColumnDtype([i \in idx |-> rows[i].Tags])
  IN  dropna([i \in idx |->
               [Date |-> ParseDate(rows[i].Date),
                Type |-> rows[i].Type,
                Category |-> rows[i].Category,
                Amount |-> to_numeric(rows[i].Amount),
                Description |-> ParseCell(rows[i].Description, ddesc),
                Tags |-> ParseCell(rows[i].Tags, dtags)]])

\* load_data(): <<"ok", df>> or <<"raise", exception>>.  Only
\* FileNotFoundError is caught.
load_data(files) ==
  IF DATA_FILE \notin DOMAIN files THEN <<"ok", <<>>>>
  ELSE LET content == files[DATA_FILE]
       IN  IF content.mode # "rw" THEN <<"raise", "PermissionError">>
           ELSE IF content.header = <<>> THEN <<"raise", "EmptyDataError">>
           ELSE IF ~HasColumn(content, "Date") THEN <<"raise", "ValueError">>
           ELSE IF ~HasColumn(content, "Amount") THEN <<"raise", "KeyError">>
           ELSE <<"ok", read_rows(content)>>

\* save_data(df): overwrites the primary file, and writes nothing else
save_data(files, df) == WriteFile(files, DATA_FILE, to_csv(df))

----------------------------------------------------------------------------
(* Inputs *)

\* the model's calendar; in the ledger specifications its last day is still
\* in the future
Days == 0..MaxDay

Types == {"Income", "Expense"}

categories(ttype) ==
  IF ttype = "Income" THEN INCOME_CATEGORIES ELSE EXPENSE_CATEGORIES

\* the category select box lists the categories of the chosen type; the
\* model submits its first option
Args(days, amounts, descriptions, tagtexts) ==
  { [date |-> d, ttype |-> ty, category |-> Head(categories(ty)), amount |-> a,
     description |-> de, tags |-> tg] :
      d \in days, ty \in Types, a \in amounts,
      de \in descriptions, tg \in tagtexts }

\* descriptions: none, a word, digits, and a word of na_values
Descriptions == { <<>>, <<"x">>, <<"0", "7">>, <<"N", "A">> }

\* what a caller can pass to add_transaction: a date up to today or after
\* it (today and tomorrow), an amount that is positive or not
CallArgs == Args({MaxDay - 1, MaxDay}, {0, MaxAmount}, Descriptions, {<<>>})

\* what the sidebar form can submit: date_input(max_value=today),
\* number_input(min_value=0.01)
FormArgs ==
  Args({d \in Days : d <= today}, {a \in {0, MinAmount, MaxAmount} : a >= MinAmount},
       Descriptions, {<<>>})

Indexes == -1..MaxRows

----------------------------------------------------------------------------
(* add_transaction and delete_transaction *)

\* a variant that forgets the sign of an expense
final_amount_unsigned(ttype, amount) == amount

\* final_amount = amount if ttype == "Income" else -amount
final_amount(ttype, amount) == IF ttype = "Income" THEN amount ELSE -amount

\* pd.to_datetime(date) of a datetime.date is that day at midnight
new_entry(t) ==
  [Date |-> t.date,
   Type |-> t.ttype,
   Category |-> t.category,
   Amount |-> final_amount(t.ttype, t.amount),
   Description |-> StrCell(t.description),
   Tags |-> StrCell(t.tags)]

\* pd.concat([df, pd.DataFrame([new_entry])], ignore_index=True)
concat(df, entry) == Append(df, entry)

\* a variant that checks only the upper end of the range
InRange_no_lower_bound(index, n) == index < n

\* "if 0 <= index < len(df)"
InRange(index, n) == 0 <= index /\ index < n

\* df.index[index]: a negative index counts from the end, as Python indexing
\* does; a position the frame does not have raises IndexError
HasPosition(df, index) == -Len(df) <= index /\ index < Len(df)

\* df.drop(df.index[index]).reset_index(drop=True)
drop(df, index) ==
  LET p == IF index < 0 THEN Len(df) + index + 1 ELSE index + 1
  IN  [i \in 1..(Len(df) - 1) |-> IF i >= p THEN df[i + 1] ELSE df[i]]

\* add_transaction(date, ttype, category, amount, description, tags); r is
\* what its first statement, df = load_data(), evaluates to.  An exception
\* of load_data leaves the function; otherwise the row is appended, the file
\* rewritten and True returned.  (The first conjunct caps the ledger at
\* MaxRows rows.)
add_transaction(r, t) ==
      /\ r[1] = "ok" => Len(r[2]) < MaxRows
      /\ call' = <<"add", t>>
      /\ IF r[1] = "raise"
         THEN /\ ret' = "raise"
              /\ fs' = fs
         ELSE /\ fs' = save_data(fs, concat(r[2], new_entry(t)))
              /\ ret' = "True"
      /\ UNCHANGED <<today, view>>

\* delete_transaction(index); r is what df = load_data() evaluates to
delete_transaction(r, index) ==
      /\ call' = <<"delete", index>>
      /\ IF r[1] = "raise"
         THEN /\ ret' = "raise"
              /\ fs' = fs
         ELSE IF InRange(index, Len(r[2])) /\ ~HasPosition(r[2], index)
         THEN /\ ret' = "raise"
              /\ fs' = fs
         ELSE IF InRange(index, Len(r[2]))
         THEN /\ fs' = save_data(fs, drop(r[2], index))
              /\ ret' = "True"
         ELSE /\ fs' = fs
              /\ ret' = "False"
      /\ UNCHANGED <<today, view>>

\* the sidebar form: "if submitted and amount > 0: add_transaction(...)"
SubmitForm(r, t) ==
  /\ t.amount > 0
  /\ add_transaction(r, t)

----------------------------------------------------------------------------
(* The dashboard: one run of the script below the sidebar *)

RECURSIVE strip(_)
strip(s) ==
  IF s = <<>> THEN s
  ELSE IF Head(s) = " " THEN strip(Tail(s))
  ELSE IF s[Len(s)] = " " THEN strip(SubSeq(s, 1, Len(s) - 1))
  ELSE s

\* str.split(sep): the pieces between separators, empty pieces included
RECURSIVE split(_, _)
split(s, sep) ==
  IF \A i \in 1..Len(s) : s[i] # sep THEN <<s>>
  ELSE LET k == CHOOSE i \in 1..Len(s) :
                  s[i] = sep /\ \A j \in 1..(i - 1) : s[j] # sep
       IN  <<SubSeq(s, 1, k - 1)>> \o split(SubSeq(s, k + 1, Len(s)), sep)

\* df.loc[keep]: the rows whose flag is set, in order
RECURSIVE loc(_, _)
loc(df, keep) ==
  IF df = <<>> THEN <<>>
  ELSE (IF Head(keep) THEN <<Head(df)>> ELSE <<>>) \o loc(Tail(df), Tail(keep))

amounts_of(df) == [i \in 1..Len(df) |-> df[i].Amount]

\* (df['Date'].dt.date >= start_date) & (df['Date'].dt.date <= end_date)
mask(d, start_date, end_date) == d >= start_date /\ d <= end_date

\* (df['Date'].dt.date >= prev_start) & (df['Date'].dt.date < prev_end)
prev_mask(d, prev_start, prev_end) == d >= prev_start /\ d < prev_end

period_days(start_date, end_date) == end_date - start_date

\* df[df['Amount'] > 0]['Amount'].sum()
total_income(df) ==
  SumSeq(amounts_of(loc(df, [i \in 1..Len(df) |-> df[i].Amount > 0])))

\* a variant that forgets abs()
total_expenses_signed(df) ==
  SumSeq(amounts_of(loc(df, [i \in 1..Len(df) |-> df[i].Amount < 0])))

\* abs(df[df['Amount'] < 0]['Amount'].sum())
total_expenses(df) ==
  Abs(SumSeq(amounts_of(loc(df, [i \in 1..Len(df) |-> df[i].Amount < 0]))))

net_balance(df) == total_income(df) - total_expenses(df)

\* "... if not prev_df.empty else 0"
prev_income(prev_df) == IF prev_df # <<>> THEN total_income(prev_df) ELSE 0

prev_expenses(prev_df) == IF prev_df # <<>> THEN total_expenses(prev_df) ELSE 0

\* the rows the tag loop appends for one row of filtered_df
tag_rows(row) ==
  IF notna(row.Tags) /\ strip(row.Tags[2]) # <<>>
  THEN LET tags == split(row.Tags[2], ",")
       IN  [i \in 1..Len(tags) |->
             [Tag |-> strip(tags[i]), Amount |-> Abs(row.Amount), Type |-> row.Type]]
  ELSE <<>>

\* row['Tags'].strip() on a number (a Tags column read as numeric) raises
\* AttributeError
tags_raise(df) ==
  \E i \in 1..Len(df) : notna(df[i].Tags) /\ IsNumCell(df[i].Tags)

tag_data(df) == Flatten([i \in 1..Len(df) |-> tag_rows(df[i])])

\* the metrics and tables of the dashboard branch
dashboard(df, filtered_df, start_date, end_date) ==
  LET prev_start == start_date - period_days(start_date, end_date)
      prev_end == start_date
      prev_df == loc(df, [i \in 1..Len(df) |->
                           prev_mask(df[i].Date, prev_start, prev_end)])
  IN  [page |-> "dashboard",
       start_date |-> start_date,
       end_date |-> end_date,
       filtered_df |-> filtered_df,
       total_income |-> total_income(filtered_df),
       total_expenses |-> total_expenses(filtered_df),
       net_balance |-> net_balance(filtered_df),
       prev_start |-> prev_start,
       prev_end |-> prev_end,
       prev_df |-> prev_df,
       prev_income |-> prev_income(prev_df),
       prev_expenses |-> prev_expenses(prev_df),
       prev_balance |-> prev_income(prev_df) - prev_expenses(prev_df),
       tag_data |-> tag_data(filtered_df)]

\* df = load_data(); the welcome page, the "no transactions" warning, or the
\* dashboard for the chosen date range (both date inputs have max_value=today)
Render(r, start_date, end_date) ==
  /\ start_date <= today /\ end_date <= today
  /\ view' =
       IF r[1] = "raise" THEN [page |-> "error", exception |-> r[2]]
       ELSE IF r[2] = <<>> THEN [page |-> "welcome"]
       ELSE LET filtered_df == loc(r[2], [i \in 1..Len(r[2]) |->
                                      mask(r[2][i].Date, start_date, end_date)])
            IN  IF filtered_df = <<>>
                THEN [page |-> "warning", start_date |-> start_date,
                      end_date |-> end_date]
                ELSE IF tags_raise(filtered_df)
                THEN [page |-> "error", exception |-> "AttributeError"]
                ELSE dashboard(r[2], filtered_df, start_date, end_date)
  /\ UNCHANGED <<fs, today, call, ret>>

----------------------------------------------------------------------------
(* Specifications *)

NoView == [page |-> "none"]

CallAdd == \E r \in {load_data(fs)} : \E t \in CallArgs : add_transaction(r, t)

CallDelete == \E r \in {load_data(fs)} : \E i \in Indexes : delete_transaction(r, i)

Submit == \E r \in {load_data(fs)} : \E t \in FormArgs : SubmitForm(r, t)

RunScript ==
  \E r \in {load_data(fs)} : \E start_date, end_date \in Days :
    Render(r, start_date, end_date)

\* a fresh installation: no data file yet
Init ==
  /\ fs = NoFiles
  /\ today = MaxDay - 1
  /\ call = <<"none">>
  /\ ret = "none"
  /\ view = NoView

\* the ledger functions called with any arguments
Next == CallAdd \/ CallDelete

Spec == Init /\ [][Next]_vars

\* the ledger driven through the sidebar form
NextForm == Submit \/ CallDelete

SpecForm == Init /\ [][NextForm]_vars

\* data files the program did not write itself: none, a header only, a row
\* whose Amount is not a number, an empty file, a file without the Date or
\* the Amount column, an unreadable file
GoodRow ==
  [Date |-> DateText(0), Type |-> "Income", Category |-> "Salary",
   Amount |-> AmountText(MaxAmount), Description |-> <<"x">>, Tags |-> <<>>]

ForeignFiles ==
  { [mode |-> "rw", header |-> COLUMNS, rows |-> <<>>],
    [mode |-> "rw", header |-> COLUMNS,
     rows |-> <<[GoodRow EXCEPT !.Amount = <<"text", "abc">>], GoodRow>>],
    [mode |-> "rw", header |-> <<>>, rows |-> <<>>],
    [mode |-> "rw", header |-> <<"Type", "Category", "Amount">>, rows |-> <<>>],
    [mode |-> "rw", header |-> <<"Date", "Type", "Category">>, rows |-> <<>>],
    [mode |-> "none", header |-> COLUMNS, rows |-> <<GoodRow>>] }

InitStore ==
  /\ fs \in {NoFiles} \cup {WriteFile(NoFiles, DATA_FILE, c) : c \in ForeignFiles}
  /\ today = MaxDay - 1
  /\ call = <<"none">>
  /\ ret = "none"
  /\ view = NoView

SpecStore == InitStore /\ [][Next]_vars

\* the ledgers the form can have written, shown on the dashboard
RECURSIVE StoreAfter(_)
StoreAfter(ts) ==
  IF ts = <<>> THEN NoFiles
  ELSE LET files == StoreAfter(SubSeq(ts, 1, Len(ts) - 1))
       IN  save_data(files, concat(load_data(files)[2], new_entry(ts[Len(ts)])))

SeqsUpTo(S, n) == UNION {[1..k -> S] : k \in 0..n}

DashArgs == Args(Days, {MinAmount, MaxAmount}, {<<>>}, {<<>>})

InitDash ==
  /\ fs \in {StoreAfter(ts) : ts \in SeqsUpTo(DashArgs, MaxRows)}
  /\ today = MaxDay
  /\ call = <<"none">>
  /\ ret = "none"
  /\ view = NoView

NextDash == RunScript

SpecDash == InitDash /\ [][NextDash]_vars

\* tags as the form's text box can hold them
TagTexts ==
  { <<>>, <<" ">>, <<"a">>, <<"a", ",", " ", "b">>, <<"a", ",">>,
    <<"a", ",", ",", "b">>, <<"7">> }

TagArgs == Args({MaxDay}, {MaxAmount}, {<<>>}, TagTexts)

InitTags ==
  /\ fs \in {StoreAfter(ts) : ts \in SeqsUpTo(TagArgs, MaxRows)}
  /\ today = MaxDay
  /\ call = <<"none">>
  /\ ret = "none"
  /\ view = NoView

SpecTags == InitTags /\ [][NextDash]_vars

----------------------------------------------------------------------------
(* Properties *)

\* the ledger load_data() returns for a file system where it does not raise
Ledger(files) == load_data(files)[2]

\* a row as it reads: the free-text cells by the text they print
RowText(row) ==
  [Date |-> row.Date, Type |-> row.Type, Category |-> row.Category,
   Amount |-> row.Amount, Description |-> CellText(row.Description),
   Tags |-> CellText(row.Tags)]

Texts(df) == [i \in 1..Len(df) |-> RowText(df[i])]

Without(df, index) ==
  [i \in 1..(Len(df) - 1) |-> IF i <= index THEN df[i] ELSE df[i + 1]]

\* C1: for a valid transaction t (date not after today, amount > 0),
\* add_transaction(t) succeeds and load_data() afterwards returns the rows it
\* returned before, unchanged and in order, followed by one row holding t's
\* date, type, category, description and tags.
C1_AppendKeepsRowsAndAddsOne ==
  [][(/\ call'[1] = "add"
      /\ call'[2].date <= today
      /\ call'[2].amount > 0)
     => /\ ret' = "True"
        /\ Len(Ledger(fs')) = Len(Ledger(fs)) + 1
        /\ \A i \in 1..Len(Ledger(fs)) :
             RowText(Ledger(fs')[i]) = RowText(Ledger(fs)[i])
        /\ LET last == RowText(Ledger(fs')[Len(Ledger(fs'))])
           IN  /\ last.Date = call'[2].date
               /\ last.Type = call'[2].ttype
               /\ last.Category = call'[2].category
               /\ last.Description = call'[2].description
               /\ last.Tags = call'[2].tags]_vars

\* C2: add_transaction with a date strictly after today (and an amount that
\* is otherwise acceptable) leaves the stored ledger as it was and returns
\* failure, not success.
C2_FutureDateRejected ==
  [][(call'[1] = "add" /\ call'[2].date > today /\ call'[2].amount > 0)
     => (fs' = fs /\ ret' = "False")]_vars

\* C3: delete_transaction(index) with index < 0 or index >= the length of the
\* loaded ledger returns False, writes nothing, and the next load_data()
\* returns the same rows as before.
C3_DeleteOutOfRangeIsNoOp ==
  [][(/\ call'[1] = "delete"
      /\ (call'[2] < 0 \/ call'[2] >= Len(Ledger(fs))))
     => /\ ret' = "False"
        /\ fs' = fs
        /\ load_data(fs') = load_data(fs)]_vars

\* a delete with a negative index was refused on a ledger that has rows
C3_Witness ==
  /\ call = <<"delete", -1>>
  /\ ret = "False"
  /\ Len(Ledger(fs)) >= 1

\* C4: delete_transaction(index) with 0 <= index < length returns True and
\* the ledger loaded afterwards is the one loaded before with exactly the row
\* at that position removed, the other rows keeping their values and order;
\* deleting the only row leaves zero rows.
C4_DeleteRemovesExactlyOneRow ==
  [][(/\ call'[1] = "delete"
      /\ 0 <= call'[2] /\ call'[2] < Len(Ledger(fs)))
     => /\ ret' = "True"
        /\ Texts(Ledger(fs')) = Texts(Without(Ledger(fs), call'[2]))]_vars

C6_BackupBeforeOverwrite ==
  [][(/\ call'[1] \in {"add", "delete"}
      /\ ret' = "True"
      /\ DATA_FILE \in DOMAIN fs)
     => \E b \in DOMAIN fs' \ DOMAIN fs :
          /\ b # DATA_FILE
          /\ fs'[b] = fs[DATA_FILE]]_vars

\* C7: load_data() returns a row sequence for every state of the store
\* (absent, well-formed, unreadable, unparseable, lacking columns), so that
\* no add or delete ends in an unhandled exception.
C7_LoadNeverRaises ==
  /\ load_data(fs)[1] = "ok"
  /\ ret # "raise"

\* the sum of the amounts of the rows of df at the positions in idx
RECURSIVE SumAt(_, _)
SumAt(df, idx) ==
  IF idx = {} THEN 0
  ELSE LET i == CHOOSE j \in idx : TRUE
       IN  df[i].Amount + SumAt(df, idx \ {i})

Income(df) == SumAt(df, {i \in 1..Len(df) : df[i].Amount > 0})

Expenses(df) == Abs(SumAt(df, {i \in 1..Len(df) : df[i].Amount < 0}))

\* C8: on the dashboard, for the selected rows and for the rows of the
\* previous period (which may be none), income is the sum of the positive
\* amounts, expenses the absolute value of the sum of the negative amounts,
\* and the balance is income - expenses; for no rows all three are zero.
C8_TotalsIdentity ==
  /\ view.page # "error"
  /\ view.page = "dashboard" =>
    /\ view.total_income = Income(view.filtered_df)
    /\ view.total_expenses = Expenses(view.filtered_df)
    /\ view.net_balance = Income(view.filtered_df) - Expenses(view.filtered_df)
    /\ view.prev_income = Income(view.prev_df)
    /\ view.prev_expenses = Expenses(view.prev_df)
    /\ view.prev_balance = Income(view.prev_df) - Expenses(view.prev_df)
    /\ view.prev_df = <<>> =>
         /\ view.prev_income = 0
         /\ view.prev_expenses = 0
         /\ view.prev_balance = 0

\* the selected rows hold income and expenses, and the previous period holds
\* no rows
C8_Witness ==
  /\ view.page = "dashboard"
  /\ view.total_income > 0
  /\ view.total_expenses > 0
  /\ view.net_balance # view.total_income
  /\ view.prev_df = <<>>

\* the tags a Tags text names: its comma-separated pieces, trimmed, the
\* empty ones left out
TagsOf(text) ==
  LET pieces == split(text, ",")
  IN  {strip(pieces[i]) : i \in 1..Len(pieces)} \ {<<>>}

NumTags(text) ==
  LET pieces == split(text, ",")
  IN  Cardinality({i \in 1..Len(pieces) : strip(pieces[i]) # <<>>})

\* C9: the tag table has one row per (transaction, tag) pair: a transaction
\* whose Tags text names k tags contributes k rows, each with the
\* transaction's absolute Amount and its Type; a transaction with empty or
\* blank Tags contributes none; no row has an empty tag.
C9_OneRowPerTag ==
  view.page = "dashboard" =>
    /\ Len(view.tag_data) =
         SumSeq([i \in 1..Len(view.filtered_df) |->
                   NumTags(CellText(view.filtered_df[i].Tags))])
    /\ \A k \in 1..Len(view.tag_data) :
         /\ view.tag_data[k].Tag # <<>>
         /\ \E i \in 1..Len(view.filtered_df) :
              /\ view.tag_data[k].Tag \in TagsOf(CellText(view.filtered_df[i].Tags))
              /\ view.tag_data[k].Amount = Abs(view.filtered_df[i].Amount)
              /\ view.tag_data[k].Type = view.filtered_df[i].Type

Calendar == (-MaxDay - 1)..(MaxDay + 1)

\* C10: for start <= end the previous period is [start - (end - start),
\* start): it shares no day with the selected range [start, end], no day lies
\* between the two, and it has as many days as the selected range.
C10_PreviousPeriodSameLength ==
  (view.page = "dashboard" /\ view.start_date <= view.end_date) =>
    LET current == {d \in Calendar : mask(d, view.start_date, view.end_date)}
        previous == {d \in Calendar : prev_mask(d, view.prev_start, view.prev_end)}
    IN  /\ view.prev_start = view.start_date - (view.end_date - view.start_date)
        /\ view.prev_end = view.start_date
        /\ current \cap previous = {}
        /\ \A d \in Calendar :
             (view.prev_start <= d /\ d <= view.end_date) => d \in current \cup previous
        /\ Cardinality(previous) = Cardinality(current)

====
